---- MODULE Spec2Model ----
(***************************************************************************)
(* Model of rusty-daw-core's auto-smoothed parameters (src/parameter.rs):  *)
(* the audio-side ParamF32/ParamF64, the control-side ParamF32Handle/      *)
(* ParamF64Handle and the atomic cell they share.  The f32 and the f64     *)
(* instantiation are line-for-line the same code; the model follows the    *)
(* f32 one and carries its names.                                          *)
(*                                                                         *)
(* Numbers.  A float is modelled exactly, as a fixed-point integer:        *)
(*   - a (de-normalized or DSP) value x stands for x / ValScale;           *)
(*   - a normalized value i stands for i / NormScale, so 0 is 0.0 and      *)
(*     NormScale is 1.0; inputs below 0 and above NormScale are the        *)
(*     out-of-range arguments.                                             *)
(* The parameter configurations and the input sets are chosen so that      *)
(* every product, quotient, logarithm and power the code takes is exact on *)
(* them; rounding of the float formats is outside this model.              *)
(*                                                                         *)
(* Atomicity.  ParamF32's methods take &mut self, so they run one at a     *)
(* time on the audio thread; each of them touches the shared cell exactly  *)
(* once (one load or one store) and everything else it does is local to    *)
(* the audio thread, so each is one atomic step taken at that access.  A   *)
(* Handle method is a pure computation followed by one atomic store.       *)
(***************************************************************************)
EXTENDS Integers, Naturals, Sequences, FiniteSets, TLC

VARIABLES
    self,               \* the ParamF32 struct (audio side)
    shared_normalized,  \* the Arc<AtomicF32> shared by the Parameter and all Handles
    handles,            \* the ParamF32Handle structs alive (the first one and its clones)
    lastOp,             \* history: the last ParamF32 call, the collaborator calls it made,
                        \*   whether it repeats the call before it with nothing in between,
                        \*   whether (set_sample_rate) it left all but the Smoother's speed alone,
                        \*   and the ParamF32 struct as the call left it
    hwrites,            \* history: the values stored by Handles since the last ParamF32 call (last two)
    last_store,         \* history: the value of the most recent store to the cell
    lastBlock,          \* history: what the smoothed() call that has just returned started from
    conv,               \* a gradient conversion on its own: the bounds and gradient, the
                        \*   argument, and the results of the calls made so far
    param_i32,          \* the ParamI32 struct (min, max)
    shared,             \* the Arc<AtomicI32> shared by the ParamI32 and all its Handles
    handles_i32,        \* the ParamI32Handle structs alive (the first one and its clones)
    last_i32,           \* history: the last ParamI32 / ParamI32Handle call and what it returned
    time                \* a time value (src/time.rs): its unit, its count, the sample rate in
                        \*   use, the call that produced it and that call's argument

varsF32 == <<self, shared_normalized, handles, lastOp, hwrites, last_store, lastBlock>>
varsGradient == <<conv>>
varsI32 == <<param_i32, shared, handles_i32, last_i32>>
varsTime == <<time>>

vars == <<varsF32, varsGradient, varsI32, varsTime>>

----------------------------------------------------------------------------
(* Bounds of the model *)

\* resolution of the normalized grid: normalized values are i / NormScale
NormScale == 2

\* number of ParamF32Handle structs (the original and its clones)
MaxHandles == 2

\* sample and beat counts run over -MaxTime..MaxTime and, for samples, over
\* the same distance around +LargeTime and -LargeTime
MaxTime == 2
LargeTime == 1000000

\* the step of the sample counts converted at the rates that are not common
MidTime == 100

----------------------------------------------------------------------------
(* Number representation *)

\* the decibel floor of db_to_coeff_clamped_neg_90_db
NEG_90_DB == -90

RECURSIVE Pow10(_)
Pow10(k) == IF k <= 0 THEN 1 ELSE 10 * Pow10(k - 1)

RECURSIVE Pow2(_)
Pow2(k) == IF k <= 0 THEN 1 ELSE 2 * Pow2(k - 1)

\* units per 1.0: fine enough for the amplitude of every 20 dB step above the floor
ValScale == Pow10((0 - NEG_90_DB) \div 20)

Real(x) == x * ValScale

\* 0.0 and 1.0 as normalized values
Zero == 0
One == NormScale

\* the two non-finite floats the code can produce, as values outside every range
NaN == 0 - Pow2(30)
NEG_INFINITY == 1 - Pow2(30)

is_finite(x) == x # NaN /\ x # NEG_INFINITY

\* the != of f32: NaN differs from every value, itself included
ne(a, b) == a = NaN \/ b = NaN \/ a # b

\* f32::clamp: NaN stays NaN
clamp(x, lo, hi) ==
    IF x = NaN THEN NaN ELSE IF x < lo THEN lo ELSE IF x > hi THEN hi ELSE x

\* f32::log2 and 2.0f32.powf, exact on the powers of two (whole octaves); the
\* logarithm of a negative number is NaN and that of 0.0 is -inf
exp2(k) == IF k >= 0 THEN ValScale * Pow2(k) ELSE ValScale \div Pow2(0 - k)
log2(x) ==
    IF x < 0 THEN NaN
    ELSE IF x = 0 THEN NEG_INFINITY
    ELSE CHOOSE k \in -4..16 : exp2(k) = x

\* the exponent of the Gradient::Power(exponent) parameters constructed
Power_exponent == 2

RECURSIVE Pow(_, _)
Pow(b, e) == IF e <= 0 THEN 1 ELSE b * Pow(b, e - 1)

\* x.powf(1.0 / e) on the normalized grid: the e-th root, exact on e-th powers
Root(x, e) == CHOOSE r \in 0..NormScale :
                 /\ Pow(r, e) <= x
                 /\ (r = NormScale \/ Pow(r + 1, e) > x)

----------------------------------------------------------------------------
(* Unit and gradient mapping *)

\* decibel.rs: 10^(db/20), and exactly 0.0 at or below -90 dB
db_to_coeff_clamped_neg_90_db_f32(db) ==
    IF db <= Real(NEG_90_DB) THEN 0
    ELSE Pow10((db \div Real(20)) + ((0 - NEG_90_DB) \div 20))

unit_to_dsp_f32(unit, v) ==
    IF unit = "Decibels" THEN db_to_coeff_clamped_neg_90_db_f32(v) ELSE v

\* mutant: the affine map does not add min
normalized_to_value_f32_no_offset(n, min, max, gradient) ==
    LET normalized == clamp(n, Zero, One)
        map(x) == (x * (max - min)) \div NormScale
    IN  CASE normalized = NaN -> NaN
          [] gradient = "Linear" -> map(normalized)
          [] gradient = "Power" ->
                (Pow(normalized, Power_exponent) * (max - min))
                    \div Pow(NormScale, Power_exponent)
          [] gradient = "Exponential" ->
                IF normalized = Zero THEN min
                ELSE IF normalized = One THEN max
                ELSE LET minl == log2(min)
                         range == log2(max) - minl
                     IN  IF ~is_finite(minl) THEN NaN
                         ELSE exp2(((normalized * range) \div NormScale) + minl)

\* A NaN argument stays NaN through clamp and every operation after it.  In the
\* Exponential branch min <= 0 makes minl NaN or -inf, and the exponent formed
\* from it (NaN, or n * inf - inf) is NaN.
normalized_to_value_f32(n, min, max, gradient) ==
    LET normalized == clamp(n, Zero, One)
        map(x) == ((x * (max - min)) \div NormScale) + min
    IN  CASE normalized = NaN -> NaN
          [] gradient = "Linear" -> map(normalized)
          [] gradient = "Power" ->
                ((Pow(normalized, Power_exponent) * (max - min))
                    \div Pow(NormScale, Power_exponent)) + min
          [] gradient = "Exponential" ->
                IF normalized = Zero THEN min
                ELSE IF normalized = One THEN max
                ELSE LET minl == log2(min)
                         range == log2(max) - minl
                     IN  IF ~is_finite(minl) THEN NaN
                         ELSE exp2(((normalized * range) \div NormScale) + minl)

\* mutant: the saturation at max is missing
value_to_normalized_f32_no_upper(v, min, max, gradient) ==
    IF v <= min THEN Zero
    ELSE LET unmap(x) == ((x - min) * NormScale) \div (max - min)
         IN  CASE gradient = "Linear" -> unmap(v)
               [] gradient = "Exponential" ->
                     LET minl == log2(min)
                         range == log2(max) - minl
                     IN  ((log2(v) - minl) * NormScale) \div range

\* A NaN argument passes both comparisons and stays NaN.  In the Exponential
\* branch min <= 0 makes minl NaN or -inf, and the quotient formed from it
\* (NaN, or inf / inf) is NaN.
value_to_normalized_f32(v, min, max, gradient) ==
    IF v = NaN THEN NaN
    ELSE IF v <= min THEN Zero
    ELSE IF v >= max THEN One
    ELSE LET unmap(x) == ((x - min) * NormScale) \div (max - min)
         IN  CASE gradient = "Linear" -> unmap(v)
               [] gradient = "Power" ->
                     Root(((v - min) * Pow(NormScale, Power_exponent)) \div (max - min),
                          Power_exponent)
               [] gradient = "Exponential" ->
                     LET minl == log2(min)
                         range == log2(max) - minl
                     IN  IF ~is_finite(minl) THEN NaN
                         ELSE ((log2(v) - minl) * NormScale) \div range

----------------------------------------------------------------------------
(* The Smoother (SmoothF32), an external collaborator: the target it was   *)
(* last given, whether a ramp toward it is in progress, and its speed.     *)

SmoothF32_new(v) == [target |-> v, ramping |-> FALSE, speed |-> <<0, 0>>]

SmoothF32_set_speed(s, sample_rate, secs) == [s EXCEPT !.speed = <<sample_rate, secs>>]

SmoothF32_set(s, v) == [s EXCEPT !.target = v, !.ramping = TRUE]

SmoothF32_reset(s, v) == [s EXCEPT !.target = v, !.ramping = FALSE]

\* process(frames) followed by update_status(): a ramp in progress either
\* settles within the block or is still in progress after it
SmoothF32_process(s, settles) == [s EXCEPT !.ramping = s.ramping /\ ~settles]

\* output(): the block ends on the target once no ramp is in progress
SmoothF32_output(s) == [settled |-> ~s.ramping, target |-> s.target]

----------------------------------------------------------------------------
(* Configurations and inputs *)

\* DEFAULT_SMOOTH_SECS, in milliseconds
DEFAULT_SMOOTH_SECS == 5

SampleRates == {44100, 48000}

\* (min, max, gradient, unit) of the parameters constructed: a linear generic
\* range around 0, a linear decibel range from below the -90 dB floor upward
\* in 60 dB steps, and an exponential range over NormScale octaves
Configs ==
    { [min |-> Real(-1), max |-> Real(-1) + NormScale * Real(1),
       gradient |-> "Linear", unit |-> "Generic"],
      [min |-> Real(-120), max |-> Real(-120) + NormScale * Real(60),
       gradient |-> "Linear", unit |-> "Decibels"],
      [min |-> Real(1), max |-> Real(Pow2(NormScale)),
       gradient |-> "Exponential", unit |-> "Generic"] }

\* normalized arguments: the grid, one step below 0.0 and one step above 1.0
NormInputs == -1..(NormScale + 1)

\* de-normalized arguments: the values of the grid, one below min, one above
\* max; for bounds that are not in order the two bounds, one below both and one
\* above both
ValueInputs(c) ==
    IF c.min >= c.max
    THEN {c.max - Real(1), c.max, c.min, c.min + Real(1)}
    ELSE IF c.gradient = "Linear" \/ (c.gradient = "Exponential" /\ c.min <= 0)
    THEN {c.min + k * ((c.max - c.min) \div NormScale) : k \in -1..(NormScale + 1)}
    ELSE IF c.gradient = "Power"
    THEN {c.min + (Pow(k, Power_exponent) * (c.max - c.min))
                      \div Pow(NormScale, Power_exponent) : k \in 0..(NormScale + 1)}
         \cup {c.min - Real(1)}
    ELSE {exp2(log2(c.min) + k) : k \in -1..(NormScale + 1)}

\* the parameters the gradient mapping is exercised on: those above, a
\* Gradient::Power range, and an Exponential range starting at 0.0, which the
\* constructors accept
GradientConfigs ==
    Configs \cup
    { [min |-> Real(0), max |-> Real(Pow(NormScale, Power_exponent)),
       gradient |-> "Power", unit |-> "Generic"],
      [min |-> Real(0), max |-> Real(Pow2(NormScale)),
       gradient |-> "Exponential", unit |-> "Generic"] }

\* parameters the constructors accept although min < max, or min > 0 of an
\* Exponential range, does not hold, next to a Gradient::Power range
UncheckedConfigs ==
    { [min |-> Real(0), max |-> Real(Pow(NormScale, Power_exponent)),
       gradient |-> "Power", unit |-> "Generic"],
      [min |-> Real(0), max |-> Real(Pow2(NormScale)),
       gradient |-> "Exponential", unit |-> "Generic"],
      [min |-> Real(1), max |-> Real(1), gradient |-> "Linear", unit |-> "Generic"],
      [min |-> Real(1), max |-> Real(-1), gradient |-> "Linear", unit |-> "Generic"] }

Call(f, v) == [f |-> f, v |-> v]

\* no smoothed() call has just returned
NoBlock ==
    [valid |-> FALSE, hw |-> <<>>, prev |-> [op |-> "none", arg |-> 0],
     pre |-> [normalized |-> 0, ramping |-> FALSE]]

\* keep the last two Handle stores
Last2(s) == IF Len(s) <= 2 THEN s ELSE SubSeq(s, Len(s) - 1, Len(s))

----------------------------------------------------------------------------
(* Construction *)

HandleOf(min, max, gradient, unit) ==
    [min |-> min, max |-> max, gradient |-> gradient, unit |-> unit]

ParamF32_from_value(v, min, max, gradient, unit, smooth_secs, sample_rate) ==
    LET normalized == value_to_normalized_f32(v, min, max, gradient)
        handle_value == normalized_to_value_f32(normalized, min, max, gradient)
        rt_value == IF unit = "Decibels"
                    THEN db_to_coeff_clamped_neg_90_db_f32(handle_value)
                    ELSE handle_value
        smoothed == SmoothF32_set_speed(SmoothF32_new(rt_value), sample_rate, smooth_secs)
    IN  [param |-> [min |-> min, max |-> max, gradient |-> gradient, unit |-> unit,
                    normalized |-> normalized, value |-> rt_value,
                    smoothed |-> smoothed, smooth_secs |-> smooth_secs],
         cell |-> normalized,
         handle |-> HandleOf(min, max, gradient, unit)]

\* mutant: the Smoother starts at 0.0 and ramps to the initial DSP value
ParamF32_from_normalized_initial_ramp(n, min_value, max_value, gradient, unit, smooth_secs, sample_rate) ==
    LET normalized == clamp(n, Zero, One)
        handle_value == normalized_to_value_f32(normalized, min_value, max_value, gradient)
        rt_value == IF unit = "Decibels"
                    THEN db_to_coeff_clamped_neg_90_db_f32(handle_value)
                    ELSE handle_value
        smoothed == SmoothF32_set_speed(SmoothF32_set(SmoothF32_new(0), rt_value),
                                        sample_rate, smooth_secs)
    IN  [param |-> [min |-> min_value, max |-> max_value, gradient |-> gradient,
                    unit |-> unit, normalized |-> normalized, value |-> rt_value,
                    smoothed |-> smoothed, smooth_secs |-> smooth_secs],
         cell |-> normalized,
         handle |-> HandleOf(min_value, max_value, gradient, unit)]

ParamF32_from_normalized(n, min_value, max_value, gradient, unit, smooth_secs, sample_rate) ==
    LET normalized == clamp(n, Zero, One)
        handle_value == normalized_to_value_f32(normalized, min_value, max_value, gradient)
        rt_value == IF unit = "Decibels"
                    THEN db_to_coeff_clamped_neg_90_db_f32(handle_value)
                    ELSE handle_value
        smoothed == SmoothF32_set_speed(SmoothF32_new(rt_value), sample_rate, smooth_secs)
    IN  [param |-> [min |-> min_value, max |-> max_value, gradient |-> gradient,
                    unit |-> unit, normalized |-> normalized, value |-> rt_value,
                    smoothed |-> smoothed, smooth_secs |-> smooth_secs],
         cell |-> normalized,
         handle |-> HandleOf(min_value, max_value, gradient, unit)]

Constructed(pair, op, arg) ==
    /\ self = pair.param
    /\ shared_normalized = pair.cell
    /\ handles = <<pair.handle>>
    /\ lastOp = [op |-> op, arg |-> arg,
                 trace |-> <<Call("new", pair.param.value)>>, rep |-> FALSE,
                 frame |-> TRUE, left |-> pair.param]
    /\ lastBlock = NoBlock
    /\ hwrites = <<>>
    /\ last_store = pair.cell

----------------------------------------------------------------------------
(* ParamF32: the audio-side methods *)

\* what a smoothed() call started from: the Handle stores since the previous
\* ParamF32 call, that previous call when no Handle store came after it, and
\* the cached normalized value and ramp status at entry
ThisBlock ==
    [valid |-> TRUE, hw |-> hwrites,
     prev |-> IF hwrites = <<>> THEN [op |-> lastOp.op, arg |-> lastOp.arg]
              ELSE [op |-> "none", arg |-> 0],
     pre |-> [normalized |-> self.normalized, ramping |-> self.smoothed.ramping]]

\* what every ParamF32 call leaves alone, and its entry in the history
ParamCall(op, arg, trace) ==
    /\ lastOp' = [op |-> op, arg |-> arg, trace |-> trace,
                  rep |-> (lastOp.op = op /\ lastOp.arg = arg /\ hwrites = <<>>),
                  frame |-> (op = "set_sample_rate" =>
                               /\ [self' EXCEPT !.smoothed.speed = self.smoothed.speed] = self
                               /\ shared_normalized' = shared_normalized),
                  left |-> self']
    /\ hwrites' = <<>>
    /\ lastBlock' = IF op = "smoothed" THEN ThisBlock ELSE NoBlock
    /\ UNCHANGED handles

ParamF32_set_value(v) ==
    IF ne(self.value, v)
    THEN LET normalized == value_to_normalized_f32(v, self.min, self.max, self.gradient)
             x == normalized_to_value_f32(normalized, self.min, self.max, self.gradient)
             val == IF self.unit = "Decibels"
                    THEN db_to_coeff_clamped_neg_90_db_f32(x) ELSE x
         IN  /\ shared_normalized' = normalized
             /\ last_store' = normalized
             /\ self' = [self EXCEPT !.normalized = normalized, !.value = val,
                                     !.smoothed = SmoothF32_set(self.smoothed, val)]
             /\ ParamCall("set_value", v,
                          <<Call("store", normalized), Call("set", val)>>)
    ELSE /\ UNCHANGED <<self, shared_normalized, last_store>>
         /\ ParamCall("set_value", v, <<>>)

\* mutant: the DSP value is not recomputed from the new normalized value
ParamF32_set_normalized_stale_value(n) ==
    IF ne(self.normalized, n)
    THEN LET normalized == clamp(n, Zero, One)
         IN  /\ shared_normalized' = normalized
             /\ last_store' = normalized
             /\ self' = [self EXCEPT !.normalized = normalized,
                                     !.smoothed = SmoothF32_set(self.smoothed, self.value)]
             /\ ParamCall("set_normalized", n,
                          <<Call("store", normalized), Call("set", self.value)>>)
    ELSE /\ UNCHANGED <<self, shared_normalized, last_store>>
         /\ ParamCall("set_normalized", n, <<>>)

ParamF32_set_normalized(n) ==
    IF ne(self.normalized, n)
    THEN LET normalized == clamp(n, Zero, One)
             x == normalized_to_value_f32(normalized, self.min, self.max, self.gradient)
             val == IF self.unit = "Decibels"
                    THEN db_to_coeff_clamped_neg_90_db_f32(x) ELSE x
         IN  /\ shared_normalized' = normalized
             /\ last_store' = normalized
             /\ self' = [self EXCEPT !.normalized = normalized, !.value = val,
                                     !.smoothed = SmoothF32_set(self.smoothed, val)]
             /\ ParamCall("set_normalized", n,
                          <<Call("store", normalized), Call("set", val)>>)
    ELSE /\ UNCHANGED <<self, shared_normalized, last_store>>
         /\ ParamCall("set_normalized", n, <<>>)

\* mutant: the new normalized value is not published to the shared cell
ParamF32_reset_from_value_no_publish(v) ==
    LET normalized == value_to_normalized_f32(v, self.min, self.max, self.gradient)
        x == normalized_to_value_f32(normalized, self.min, self.max, self.gradient)
        val == IF self.unit = "Decibels"
               THEN db_to_coeff_clamped_neg_90_db_f32(x) ELSE x
    IN  /\ UNCHANGED <<shared_normalized, last_store>>
        /\ self' = [self EXCEPT !.normalized = normalized, !.value = val,
                                !.smoothed = SmoothF32_reset(self.smoothed, val)]
        /\ ParamCall("reset_from_value", v, <<Call("reset", val)>>)

ParamF32_reset_from_value(v) ==
    LET normalized == value_to_normalized_f32(v, self.min, self.max, self.gradient)
        x == normalized_to_value_f32(normalized, self.min, self.max, self.gradient)
        val == IF self.unit = "Decibels"
               THEN db_to_coeff_clamped_neg_90_db_f32(x) ELSE x
    IN  /\ shared_normalized' = normalized
        /\ last_store' = normalized
        /\ self' = [self EXCEPT !.normalized = normalized, !.value = val,
                                !.smoothed = SmoothF32_reset(self.smoothed, val)]
        /\ ParamCall("reset_from_value", v,
                     <<Call("store", normalized), Call("reset", val)>>)

ParamF32_reset_from_normalized(n) ==
    LET normalized == clamp(n, Zero, One)
        x == normalized_to_value_f32(normalized, self.min, self.max, self.gradient)
        val == IF self.unit = "Decibels"
               THEN db_to_coeff_clamped_neg_90_db_f32(x) ELSE x
    IN  /\ shared_normalized' = normalized
        /\ last_store' = normalized
        /\ self' = [self EXCEPT !.normalized = normalized, !.value = val,
                                !.smoothed = SmoothF32_reset(self.smoothed, val)]
        /\ ParamCall("reset_from_normalized", n,
                     <<Call("store", normalized), Call("reset", val)>>)

ParamF32_reset ==
    /\ self' = [self EXCEPT !.smoothed = SmoothF32_reset(self.smoothed, self.value)]
    /\ UNCHANGED <<shared_normalized, last_store>>
    /\ ParamCall("reset", 0, <<Call("reset", self.value)>>)

\* mutant: the adopted value is not kept as the cached normalized value
ParamF32_smoothed_keeps_cached(settles) ==
    LET new_normalized == shared_normalized
    IN  /\ IF ne(self.normalized, new_normalized)
           THEN LET x == normalized_to_value_f32(new_normalized, self.min, self.max,
                                                 self.gradient)
                    val == IF self.unit = "Decibels"
                           THEN db_to_coeff_clamped_neg_90_db_f32(x) ELSE x
                IN  /\ self' = [self EXCEPT
                                  !.value = val,
                                  !.smoothed = SmoothF32_process(
                                                  SmoothF32_set(self.smoothed, val), settles)]
                    /\ ParamCall("smoothed", 0, <<Call("load", new_normalized),
                                                  Call("set", val)>>)
           ELSE /\ self' = [self EXCEPT
                              !.smoothed = SmoothF32_process(self.smoothed, settles)]
                /\ ParamCall("smoothed", 0, <<Call("load", new_normalized)>>)
        /\ UNCHANGED <<shared_normalized, last_store>>

\* mutant: the shared cell is read only while no ramp is in progress
ParamF32_smoothed_settled_only(settles) ==
    LET new_normalized == shared_normalized
    IN  /\ IF ne(self.normalized, new_normalized) /\ ~self.smoothed.ramping
           THEN LET x == normalized_to_value_f32(new_normalized, self.min, self.max,
                                                 self.gradient)
                    val == IF self.unit = "Decibels"
                           THEN db_to_coeff_clamped_neg_90_db_f32(x) ELSE x
                IN  /\ self' = [self EXCEPT
                                  !.normalized = new_normalized, !.value = val,
                                  !.smoothed = SmoothF32_process(
                                                  SmoothF32_set(self.smoothed, val), settles)]
                    /\ ParamCall("smoothed", 0, <<Call("load", new_normalized),
                                                  Call("set", val)>>)
           ELSE /\ self' = [self EXCEPT
                              !.smoothed = SmoothF32_process(self.smoothed, settles)]
                /\ ParamCall("smoothed", 0, <<Call("load", new_normalized)>>)
        /\ UNCHANGED <<shared_normalized, last_store>>

\* mutant: the cell is read once for the comparison and once more for the adoption
ParamF32_smoothed_two_loads(settles) ==
    LET new_normalized == shared_normalized
    IN  /\ IF ne(self.normalized, new_normalized)
           THEN LET x == normalized_to_value_f32(shared_normalized, self.min, self.max,
                                                 self.gradient)
                    val == IF self.unit = "Decibels"
                           THEN db_to_coeff_clamped_neg_90_db_f32(x) ELSE x
                IN  /\ self' = [self EXCEPT
                                  !.normalized = shared_normalized, !.value = val,
                                  !.smoothed = SmoothF32_process(
                                                  SmoothF32_set(self.smoothed, val), settles)]
                    /\ ParamCall("smoothed", 0, <<Call("load", new_normalized),
                                                  Call("load", shared_normalized),
                                                  Call("set", val)>>)
           ELSE /\ self' = [self EXCEPT
                              !.smoothed = SmoothF32_process(self.smoothed, settles)]
                /\ ParamCall("smoothed", 0, <<Call("load", new_normalized)>>)
        /\ UNCHANGED <<shared_normalized, last_store>>

\* mutant: the adopted DSP value is not given to the Smoother
ParamF32_smoothed_no_target(settles) ==
    LET new_normalized == shared_normalized
    IN  /\ IF ne(self.normalized, new_normalized)
           THEN LET x == normalized_to_value_f32(new_normalized, self.min, self.max,
                                                 self.gradient)
                    val == IF self.unit = "Decibels"
                           THEN db_to_coeff_clamped_neg_90_db_f32(x) ELSE x
                IN  /\ self' = [self EXCEPT
                                  !.normalized = new_normalized, !.value = val,
                                  !.smoothed = SmoothF32_process(self.smoothed, settles)]
                    /\ ParamCall("smoothed", 0, <<Call("load", new_normalized)>>)
           ELSE /\ self' = [self EXCEPT
                              !.smoothed = SmoothF32_process(self.smoothed, settles)]
                /\ ParamCall("smoothed", 0, <<Call("load", new_normalized)>>)
        /\ UNCHANGED <<shared_normalized, last_store>>

\* smoothed(frames): the ramp either settles within the block or does not
ParamF32_smoothed(settles) ==
    LET new_normalized == shared_normalized
    IN  /\ IF ne(self.normalized, new_normalized)
           THEN LET x == normalized_to_value_f32(new_normalized, self.min, self.max,
                                                 self.gradient)
                    val == IF self.unit = "Decibels"
                           THEN db_to_coeff_clamped_neg_90_db_f32(x) ELSE x
                IN  /\ self' = [self EXCEPT
                                  !.normalized = new_normalized, !.value = val,
                                  !.smoothed = SmoothF32_process(
                                                  SmoothF32_set(self.smoothed, val), settles)]
                    /\ ParamCall("smoothed", 0, <<Call("load", new_normalized),
                                                  Call("set", val)>>)
           ELSE /\ self' = [self EXCEPT
                              !.smoothed = SmoothF32_process(self.smoothed, settles)]
                /\ ParamCall("smoothed", 0, <<Call("load", new_normalized)>>)
        /\ UNCHANGED <<shared_normalized, last_store>>

\* mutant: the call also reads the shared cell and adopts what it holds
ParamF32_set_sample_rate_adopts(sample_rate) ==
    LET new_normalized == shared_normalized
        x == normalized_to_value_f32(new_normalized, self.min, self.max, self.gradient)
        val == IF self.unit = "Decibels"
               THEN db_to_coeff_clamped_neg_90_db_f32(x) ELSE x
    IN  /\ self' = [self EXCEPT !.normalized = new_normalized, !.value = val,
                                !.smoothed = SmoothF32_set_speed(self.smoothed, sample_rate,
                                                                 self.smooth_secs)]
        /\ UNCHANGED <<shared_normalized, last_store>>
        /\ ParamCall("set_sample_rate", sample_rate, <<>>)

ParamF32_set_sample_rate(sample_rate) ==
    /\ self' = [self EXCEPT !.smoothed =
                  SmoothF32_set_speed(self.smoothed, sample_rate, self.smooth_secs)]
    /\ UNCHANGED <<shared_normalized, last_store>>
    /\ ParamCall("set_sample_rate", sample_rate, <<>>)

\* normalized(): the cached value
ParamF32_normalized == self.normalized

----------------------------------------------------------------------------
(* ParamF32Handle: the control-side methods *)

ParamF32Handle_normalized(h) == shared_normalized

ParamF32Handle_value(h) ==
    normalized_to_value_f32(shared_normalized, handles[h].min, handles[h].max,
                            handles[h].gradient)

\* mutant: the Handle also updates the ParamF32's cached normalized value
ParamF32Handle_set_normalized_eager(h, n) ==
    /\ shared_normalized' = clamp(n, Zero, One)
    /\ last_store' = shared_normalized'
    /\ hwrites' = Last2(Append(hwrites, shared_normalized'))
    /\ lastBlock' = NoBlock
    /\ self' = [self EXCEPT !.normalized = shared_normalized']
    /\ UNCHANGED <<handles, lastOp>>

ParamF32Handle_set_normalized(h, n) ==
    /\ shared_normalized' = clamp(n, Zero, One)
    /\ last_store' = shared_normalized'
    /\ hwrites' = Last2(Append(hwrites, shared_normalized'))
    /\ lastBlock' = NoBlock
    /\ UNCHANGED <<self, handles, lastOp>>

ParamF32Handle_set_value(h, v) ==
    LET normalized == value_to_normalized_f32(v, handles[h].min, handles[h].max,
                                              handles[h].gradient)
    IN  ParamF32Handle_set_normalized(h, normalized)

\* mutant: the clone gets a cell of its own, so the shared one is re-initialised
ParamF32Handle_clone_fresh_cell(h) ==
    /\ Len(handles) < MaxHandles
    /\ handles' = Append(handles, HandleOf(handles[h].min, handles[h].max,
                                           handles[h].gradient, handles[h].unit))
    /\ shared_normalized' = Zero
    /\ UNCHANGED <<self, lastOp, hwrites, last_store, lastBlock>>

ParamF32Handle_clone(h) ==
    /\ Len(handles) < MaxHandles
    /\ handles' = Append(handles, HandleOf(handles[h].min, handles[h].max,
                                           handles[h].gradient, handles[h].unit))
    /\ UNCHANGED <<self, shared_normalized, lastOp, hwrites, last_store, lastBlock>>

----------------------------------------------------------------------------
(* The gradient mapping on its own: value_to_normalized and                 *)
(* normalized_to_value of a parameter (pass-throughs to the two private     *)
(* functions with the parameter's min, max and gradient), applied to an     *)
(* argument and then to each other's result.                                *)

\* no conversion under way
NoConv ==
    [c |-> HandleOf(0, 0, "Linear", "Generic"), dir |-> "value", arg |-> 0,
     mid |-> 0, out |-> 0, pc |-> "idle"]

ConvStart(c, dir, arg) ==
    [c |-> c, dir |-> dir, arg |-> arg, mid |-> 0, out |-> 0, pc |-> "start"]

\* value_to_normalized: of the argument, or of what normalized_to_value returned
ParamF32_value_to_normalized ==
    \/ /\ conv.pc = "start" /\ conv.dir = "value"
       /\ conv' = [conv EXCEPT
                     !.mid = value_to_normalized_f32(conv.arg, conv.c.min, conv.c.max,
                                                     conv.c.gradient),
                     !.pc = "half"]
    \/ /\ conv.pc = "half" /\ conv.dir = "normalized"
       /\ conv' = [conv EXCEPT
                     !.out = value_to_normalized_f32(conv.mid, conv.c.min, conv.c.max,
                                                     conv.c.gradient),
                     !.pc = "done"]

\* normalized_to_value: of the argument, or of what value_to_normalized returned
ParamF32_normalized_to_value ==
    \/ /\ conv.pc = "start" /\ conv.dir = "normalized"
       /\ conv' = [conv EXCEPT
                     !.mid = normalized_to_value_f32(conv.arg, conv.c.min, conv.c.max,
                                                     conv.c.gradient),
                     !.pc = "half"]
    \/ /\ conv.pc = "half" /\ conv.dir = "value"
       /\ conv' = [conv EXCEPT
                     !.out = normalized_to_value_f32(conv.mid, conv.c.min, conv.c.max,
                                                     conv.c.gradient),
                     !.pc = "done"]

----------------------------------------------------------------------------
(* ParamI32 and ParamI32Handle: an integer parameter without smoothing.     *)
(* Its normalized arguments are f32 and its bounds are converted to f32, so *)
(* the arithmetic is f32 arithmetic: a float is the numerator of a fraction *)
(* over NormScale, and every conversion and operation rounds to the 24      *)
(* significant bits of an f32 (ties to even).  Below 2^23 the fractions of  *)
(* the grid are taken as exact.                                             *)

\* f32::MANTISSA_DIGITS
MANTISSA_DIGITS == 24

I32_MAX == 2147483647
I32_MIN == (0 - I32_MAX) - 1

abs(x) == IF x < 0 THEN 0 - x ELSE x

\* the exponent of the float 1.m * 2^e that holds the integer q >= 1
RECURSIVE exponent(_)
exponent(q) == IF q < 2 THEN 0 ELSE 1 + exponent(q \div 2)

\* the f32 nearest to num / NormScale, as a numerator over NormScale
F32(num) ==
    LET q == abs(num) \div NormScale
    IN  IF q < Pow2(MANTISSA_DIGITS - 1) THEN num
        ELSE LET ulp == Pow2(exponent(q) - (MANTISSA_DIGITS - 1))
                 d == NormScale * ulp
                 m == num \div d
                 r == num % d
             IN  IF 2 * r < d THEN m * d
                 ELSE IF 2 * r > d THEN (m + 1) * d
                 ELSE IF m % 2 = 0 THEN m * d ELSE (m + 1) * d

\* `x as f32` of an i32
as_f32(x) == F32(x * NormScale)

\* f32::round: to the nearest integer, halves away from zero
round(num) ==
    IF num >= 0 THEN (2 * num + NormScale) \div (2 * NormScale)
    ELSE 0 - ((2 * (0 - num) + NormScale) \div (2 * NormScale))

\* `x as i32` of a float that holds an integer: saturating
as_i32(x) == IF x < I32_MIN THEN I32_MIN ELSE IF x > I32_MAX THEN I32_MAX ELSE x

\* i32::clamp
clamp_i32(x, lo, hi) == IF x < lo THEN lo ELSE IF x > hi THEN hi ELSE x

\* (min, max) of the integer parameters constructed: ranges of even and of odd
\* width on both sides of 0, a single value, and a range whose upper bound is
\* the first integer an f32 cannot hold
ConfigsI32 ==
    { [min |-> 0, max |-> 10], [min |-> -3, max |-> 4], [min |-> -4, max |-> 3],
      [min |-> 5, max |-> 5], [min |-> 0, max |-> Pow2(MANTISSA_DIGITS) + 1] }

\* integer arguments: the bounds, the middle, one below min and one above max
ValueInputsI32(c) == {c.min - 1, c.min, (c.min + c.max) \div 2, c.max, c.max + 1}

HandleI32Of(min, max) == [min |-> min, max |-> max]

ParamI32_from_value(v, min, max) ==
    LET value == clamp_i32(v, min, max)
    IN  [param |-> [min |-> min, max |-> max],
         cell |-> value,
         handle |-> HandleI32Of(min, max)]

ParamI32_from_normalized(n, min_value, max_value) ==
    LET normalized == clamp(n, Zero, One)
        range == F32(as_f32(max_value) - as_f32(min_value))
        value == as_i32(round(F32(F32((normalized * range) \div NormScale)
                                  + as_f32(min_value))))
    IN  ParamI32_from_value(value, min_value, max_value)

ConstructedI32(pair, op, arg) ==
    /\ param_i32 = pair.param
    /\ shared = pair.cell
    /\ handles_i32 = <<pair.handle>>
    /\ last_i32 = [op |-> op, arg |-> arg, by |-> 0, ret |-> 0]

\* the history entry of a call: by is 0 for the ParamI32 and h for Handle h
CallI32(op, arg, by, ret) ==
    last_i32' = [op |-> op, arg |-> arg, by |-> by, ret |-> ret]

\* value(): a load of the shared integer, on the ParamI32 and on a Handle
ParamI32_value == shared

ParamI32Handle_value(h) == shared

\* mutant: the Handle keeps the value to itself
ParamI32Handle_set_value_private(h, value) ==
    /\ CallI32("set_value", value, h, 0)
    /\ UNCHANGED <<param_i32, shared, handles_i32>>

\* value_to_normalized of a ParamI32 and of a Handle with these bounds: the
\* quotient of two f32, 0.0 / 0.0 being NaN
value_to_normalized_i32(v, min, max) ==
    LET value == clamp_i32(v, min, max)
        range == F32(as_f32(max) - as_f32(min))
    IN  IF range = 0 THEN NaN
        ELSE F32((as_f32(value - min) * NormScale) \div range)

\* the quotient is a float of the grid
OnGridI32(v, min, max) ==
    LET value == clamp_i32(v, min, max)
        range == F32(as_f32(max) - as_f32(min))
    IN  IF range = 0 THEN TRUE ELSE (as_f32(value - min) * NormScale) % range = 0

\* normalized_to_value of a ParamI32 and of a Handle with these bounds
normalized_to_value_i32(n, min, max) ==
    IF n = NaN THEN 0
    ELSE LET normalized == clamp(n, Zero, One)
             range == F32(as_f32(max) - as_f32(min))
         IN  as_i32(round(F32(F32((normalized * range) \div NormScale) + as_f32(max))))

ParamI32_value_to_normalized(value) ==
    /\ OnGridI32(value, param_i32.min, param_i32.max)
    /\ CallI32("value_to_normalized", value, 0,
               value_to_normalized_i32(value, param_i32.min, param_i32.max))
    /\ UNCHANGED <<param_i32, shared, handles_i32>>

ParamI32Handle_value_to_normalized(h, value) ==
    /\ OnGridI32(value, handles_i32[h].min, handles_i32[h].max)
    /\ CallI32("value_to_normalized", value, h,
               value_to_normalized_i32(value, handles_i32[h].min, handles_i32[h].max))
    /\ UNCHANGED <<param_i32, shared, handles_i32>>

ParamI32_set_value(value) ==
    /\ shared' = clamp_i32(value, param_i32.min, param_i32.max)
    /\ CallI32("set_value", value, 0, 0)
    /\ UNCHANGED <<param_i32, handles_i32>>

ParamI32_set_normalized(n) ==
    LET normalized == clamp(n, Zero, One)
        range == F32(as_f32(param_i32.max) - as_f32(param_i32.min))
        value == as_i32(round(F32(F32((normalized * range) \div NormScale)
                                  + as_f32(param_i32.max))))
    IN  /\ shared' = clamp_i32(value, param_i32.min, param_i32.max)
        /\ CallI32("set_normalized", n, 0, 0)
        /\ UNCHANGED <<param_i32, handles_i32>>

ParamI32_normalized_to_value(n) ==
    LET normalized == clamp(n, Zero, One)
        range == F32(as_f32(param_i32.max) - as_f32(param_i32.min))
        value == as_i32(round(F32(F32((normalized * range) \div NormScale)
                                  + as_f32(param_i32.max))))
    IN  /\ CallI32("normalized_to_value", n, 0, value)
        /\ UNCHANGED <<param_i32, shared, handles_i32>>

\* mutant: the Handle stores the argument as it is
ParamI32Handle_set_value_unclamped(h, value) ==
    /\ shared' = value
    /\ CallI32("set_value", value, h, 0)
    /\ UNCHANGED <<param_i32, handles_i32>>

ParamI32Handle_set_value(h, value) ==
    /\ shared' = clamp_i32(value, handles_i32[h].min, handles_i32[h].max)
    /\ CallI32("set_value", value, h, 0)
    /\ UNCHANGED <<param_i32, handles_i32>>

ParamI32Handle_set_normalized(h, n) ==
    LET normalized == clamp(n, Zero, One)
        range == F32(as_f32(handles_i32[h].max) - as_f32(handles_i32[h].min))
        value == as_i32(round(F32(F32((normalized * range) \div NormScale)
                                  + as_f32(handles_i32[h].max))))
    IN  /\ shared' = clamp_i32(value, handles_i32[h].min, handles_i32[h].max)
        /\ CallI32("set_normalized", n, h, 0)
        /\ UNCHANGED <<param_i32, handles_i32>>

ParamI32Handle_normalized_to_value(h, n) ==
    LET normalized == clamp(n, Zero, One)
        range == F32(as_f32(handles_i32[h].max) - as_f32(handles_i32[h].min))
        value == as_i32(round(F32(F32((normalized * range) \div NormScale)
                                  + as_f32(handles_i32[h].max))))
    IN  /\ CallI32("normalized_to_value", n, h, value)
        /\ UNCHANGED <<param_i32, shared, handles_i32>>

ParamI32Handle_clone(h) ==
    /\ Len(handles_i32) < MaxHandles
    /\ handles_i32' = Append(handles_i32,
                             HandleI32Of(handles_i32[h].min, handles_i32[h].max))
    /\ UNCHANGED <<param_i32, shared, last_i32>>

----------------------------------------------------------------------------
(* Time units (src/time.rs).  SampleTime, SuperSampleTime and MusicalTime   *)
(* wrap an i64 count, Frames and SuperFrames a usize count.  SampleRate,    *)
(* Seconds and a tempo in beats per minute are f64: they are modelled       *)
(* exactly, as fractions in lowest terms, and every product and quotient    *)
(* the code takes of them is the exact one; the counts of the model stay    *)
(* far inside the range in which the f64 results on whole numbers are       *)
(* exact.                                                                   *)

\* super-samples per second and super-beats per beat
SUPER_UNITS == 28224000

\* the literals of the match arms in from_sample_time and from_frames
CommonSampleRates == {22050, 24000, 44100, 48000, 88200, 96000, 176400, 192000}

RECURSIVE gcd(_, _)
gcd(a, b) == IF b = 0 THEN a ELSE gcd(b, a % b)

\* an f64: the fraction n / d, d > 0, in lowest terms
Rat(n, d) ==
    LET g == gcd(abs(n), d)
    IN  [num |-> n \div g, den |-> d \div g]

\* the product and the quotient of two f64
RatMul(x, y) ==
    LET g1 == gcd(abs(x.num), y.den)
        g2 == gcd(abs(y.num), x.den)
    IN  [num |-> (x.num \div g1) * (y.num \div g2),
         den |-> (x.den \div g2) * (y.den \div g1)]

RatDiv(x, y) ==
    IF y.num > 0 THEN RatMul(x, [num |-> y.den, den |-> y.num])
    ELSE RatMul(x, [num |-> 0 - y.den, den |-> 0 - y.num])

\* f64::floor, f64::trunc (toward zero) and f64::fract (self - self.trunc())
floor(x) == x.num \div x.den
trunc(x) == IF x.num >= 0 THEN x.num \div x.den ELSE 0 - ((0 - x.num) \div x.den)
fract(x) == Rat(x.num - (trunc(x) * x.den), x.den)

\* `x as usize` of a non-negative f64: the integer part
f64_as_usize(x) == x.num \div x.den

\* (p as f64 / q).round(): the quotient to the nearest integer, halves away
\* from zero
div_round(p, q) ==
    LET d == p \div q
        r == p % q
    IN  IF 2 * r > q THEN d + 1
        ELSE IF 2 * r = q /\ p >= 0 THEN d + 1
        ELSE d

\* (x as f64 * (p / q)).round() for p, q > 0, with the whole part of p / q
\* multiplied separately
mul_div_round(x, p, q) == (x * (p \div q)) + div_round(x * (p % q), q)

\* SampleRate(hz) of a whole number of hertz
SampleRate(hz) == Rat(hz, 1)

\* the sample rates in use: the eight common ones, a whole rate that is not
\* common, and the rate half a hertz above 44100 Hz
SampleRateInputs ==
    {SampleRate(hz) : hz \in CommonSampleRates} \cup {SampleRate(50000), Rat(88201, 2)}

IsCommon(sample_rate) == sample_rate.den = 1 /\ sample_rate.num \in CommonSampleRates

SampleTimeInputs ==
    (0 - MaxTime)..MaxTime
        \cup {LargeTime + k : k \in (0 - MaxTime)..MaxTime}
        \cup {0 - (LargeTime + k) : k \in (0 - MaxTime)..MaxTime}

\* the sample counts converted at a rate: at a common rate those above and the
\* whole seconds, at another rate the small counts and multiples of MidTime
SampleTimesAt(sample_rate) ==
    IF IsCommon(sample_rate)
    THEN SampleTimeInputs \cup {k * sample_rate.num : k \in (0 - MaxTime)..MaxTime}
    ELSE {k * MidTime : k \in (0 - MaxTime)..MaxTime} \cup (0 - MaxTime)..MaxTime

BeatInputs == (0 - MaxTime)..MaxTime

\* tempos in beats per minute
BpmInputs == {7, 60, 120, 140}

\* times in seconds: eighths and elevenths of a second on both sides of 0
SecondsInputs ==
    {Rat(k, 8) : k \in (0 - MaxTime - 1)..(MaxTime + 1)}
        \cup {Rat(k, 11) : k \in (0 - MaxTime)..MaxTime}

\* a time value: by is the second argument of the call that produced it (a
\* sample rate or a tempo), 0 when it has none
TimeOf(unit, v, rate, op, arg, by) ==
    [unit |-> unit, v |-> v, rate |-> rate, op |-> op, arg |-> arg, by |-> by]

SampleTime_new(samples, rate) == TimeOf("SampleTime", samples, rate, "new", samples, 0)

Frames_new(frames, rate) == TimeOf("Frames", frames, rate, "new", frames, 0)

Seconds_new(seconds, rate) == TimeOf("Seconds", seconds, rate, "new", seconds, 0)

\* mutant: 22050 Hz takes the factor of 44100 Hz
SuperSampleTime_from_sample_time_wrong_factor(sample_time, sample_rate) ==
    CASE f64_as_usize(sample_rate) = 44100 -> sample_time * (SUPER_UNITS \div 44100)
      [] f64_as_usize(sample_rate) = 48000 -> sample_time * (SUPER_UNITS \div 48000)
      [] f64_as_usize(sample_rate) = 88200 -> sample_time * (SUPER_UNITS \div 88200)
      [] f64_as_usize(sample_rate) = 96000 -> sample_time * (SUPER_UNITS \div 96000)
      [] f64_as_usize(sample_rate) = 176400 -> sample_time * (SUPER_UNITS \div 176400)
      [] f64_as_usize(sample_rate) = 192000 -> sample_time * (SUPER_UNITS \div 192000)
      [] f64_as_usize(sample_rate) = 22050 -> sample_time * (SUPER_UNITS \div 44100)
      [] f64_as_usize(sample_rate) = 24000 -> sample_time * (SUPER_UNITS \div 24000)
      [] OTHER -> mul_div_round(sample_time, SUPER_UNITS * sample_rate.den, sample_rate.num)

\* match sample_rate.0 as usize { ... }: the arm is chosen by the integer part
\* of the rate
SuperSampleTime_from_sample_time(sample_time, sample_rate) ==
    CASE f64_as_usize(sample_rate) = 44100 -> sample_time * (SUPER_UNITS \div 44100)
      [] f64_as_usize(sample_rate) = 48000 -> sample_time * (SUPER_UNITS \div 48000)
      [] f64_as_usize(sample_rate) = 88200 -> sample_time * (SUPER_UNITS \div 88200)
      [] f64_as_usize(sample_rate) = 96000 -> sample_time * (SUPER_UNITS \div 96000)
      [] f64_as_usize(sample_rate) = 176400 -> sample_time * (SUPER_UNITS \div 176400)
      [] f64_as_usize(sample_rate) = 192000 -> sample_time * (SUPER_UNITS \div 192000)
      [] f64_as_usize(sample_rate) = 22050 -> sample_time * (SUPER_UNITS \div 22050)
      [] f64_as_usize(sample_rate) = 24000 -> sample_time * (SUPER_UNITS \div 24000)
      [] OTHER -> mul_div_round(sample_time, SUPER_UNITS * sample_rate.den, sample_rate.num)

\* mutant: the rate is left out of the quotient
SuperSampleTime_to_sample_time_no_rate(super_samples, sample_rate) ==
    div_round(super_samples, SUPER_UNITS)

\* (self.0 as f64 * sample_rate.0 / 28_224_000.0).round(), the fraction
\* sample_rate.0 / 28_224_000.0 taken in lowest terms
SuperSampleTime_to_sample_time(super_samples, sample_rate) ==
    LET g == gcd(sample_rate.num, SUPER_UNITS * sample_rate.den)
    IN  div_round(super_samples * (sample_rate.num \div g),
                  (SUPER_UNITS * sample_rate.den) \div g)

\* A time is followed through one conversion and back: a SampleTime that came
\* back from super-samples is not converted again.  At a rate that is not
\* common the counts converted are those up to MaxTime * MidTime.
SampleTime_to_super_sample ==
    /\ time.unit = "SampleTime"
    /\ time.op # "to_sample_time"
    /\ IsCommon(time.rate) \/ abs(time.v) <= MaxTime * MidTime
    /\ time' = TimeOf("SuperSampleTime",
                      SuperSampleTime_from_sample_time(time.v, time.rate),
                      time.rate, "to_super_sample", time.v, time.rate)

\* to_sample_time at a common rate, the one the SuperSampleTime was made at or
\* another; the argument kept is the SampleTime the SuperSampleTime was made
\* from and by is the rate that was made at
SuperSampleTime_to_sample_time_call(sample_rate) ==
    /\ time.unit = "SuperSampleTime"
    /\ time' = TimeOf("SampleTime",
                      SuperSampleTime_to_sample_time(time.v, sample_rate),
                      sample_rate, "to_sample_time", time.arg, time.rate)

SuperFrames_from_frames(frames, sample_rate) ==
    CASE f64_as_usize(sample_rate) = 44100 -> frames * (SUPER_UNITS \div 44100)
      [] f64_as_usize(sample_rate) = 48000 -> frames * (SUPER_UNITS \div 48000)
      [] f64_as_usize(sample_rate) = 88200 -> frames * (SUPER_UNITS \div 88200)
      [] f64_as_usize(sample_rate) = 96000 -> frames * (SUPER_UNITS \div 96000)
      [] f64_as_usize(sample_rate) = 176400 -> frames * (SUPER_UNITS \div 176400)
      [] f64_as_usize(sample_rate) = 192000 -> frames * (SUPER_UNITS \div 192000)
      [] f64_as_usize(sample_rate) = 22050 -> frames * (SUPER_UNITS \div 22050)
      [] f64_as_usize(sample_rate) = 24000 -> frames * (SUPER_UNITS \div 24000)
      [] OTHER -> mul_div_round(frames, SUPER_UNITS * sample_rate.den, sample_rate.num)

SuperFrames_to_frames(super_frames, sample_rate) ==
    LET g == gcd(sample_rate.num, SUPER_UNITS * sample_rate.den)
    IN  div_round(super_frames * (sample_rate.num \div g),
                  (SUPER_UNITS * sample_rate.den) \div g)

\* Frames::to_super_frames, of Frames that did not come back from SuperFrames
Frames_to_super_frames ==
    /\ time.unit = "Frames"
    /\ time.op # "to_frames"
    /\ time' = TimeOf("SuperFrames", SuperFrames_from_frames(time.v, time.rate),
                      time.rate, "to_super_frames", time.v, time.rate)

SuperFrames_to_frames_call(sample_rate) ==
    /\ time.unit = "SuperFrames"
    /\ time' = TimeOf("Frames", SuperFrames_to_frames(time.v, sample_rate),
                      sample_rate, "to_frames", time.arg, time.rate)

MusicalTime_from_beats(beats) == beats * SUPER_UNITS
MusicalTime_from_half_beats(half_beats) == half_beats * (SUPER_UNITS \div 2)
MusicalTime_from_quarter_beats(quarter_beats) == quarter_beats * (SUPER_UNITS \div 4)
MusicalTime_from_eighth_beats(eighth_beats) == eighth_beats * (SUPER_UNITS \div 8)
MusicalTime_from_sixteenth_beats(sixteenth_beats) == sixteenth_beats * (SUPER_UNITS \div 16)
MusicalTime_from_32nd_beats(thirty_second_beats) ==
    thirty_second_beats * (SUPER_UNITS \div 32)
MusicalTime_from_64th_beats(sixty_fourth_beats) ==
    sixty_fourth_beats * (SUPER_UNITS \div 32)
MusicalTime_from_third_beats(third_beats) == third_beats * (SUPER_UNITS \div 3)
MusicalTime_from_fifth_beats(fifth_beats) == fifth_beats * (SUPER_UNITS \div 5)
MusicalTime_from_seventh_beats(seventh_beats) == seventh_beats * (SUPER_UNITS \div 7)

\* the subdivision constructors by name, with the number of units in a beat
Subdivisions ==
    [from_beats |-> 1, from_half_beats |-> 2, from_quarter_beats |-> 4,
     from_eighth_beats |-> 8, from_sixteenth_beats |-> 16, from_32nd_beats |-> 32,
     from_64th_beats |-> 64, from_third_beats |-> 3, from_fifth_beats |-> 5,
     from_seventh_beats |-> 7]

MusicalTime_call(op, units) ==
    CASE op = "from_beats" -> MusicalTime_from_beats(units)
      [] op = "from_half_beats" -> MusicalTime_from_half_beats(units)
      [] op = "from_quarter_beats" -> MusicalTime_from_quarter_beats(units)
      [] op = "from_eighth_beats" -> MusicalTime_from_eighth_beats(units)
      [] op = "from_sixteenth_beats" -> MusicalTime_from_sixteenth_beats(units)
      [] op = "from_32nd_beats" -> MusicalTime_from_32nd_beats(units)
      [] op = "from_64th_beats" -> MusicalTime_from_64th_beats(units)
      [] op = "from_third_beats" -> MusicalTime_from_third_beats(units)
      [] op = "from_fifth_beats" -> MusicalTime_from_fifth_beats(units)
      [] op = "from_seventh_beats" -> MusicalTime_from_seventh_beats(units)

\* a MusicalTime is constructed from a whole number of beats given in units
\* of one of the subdivisions
MusicalTime_construct(op, beats) ==
    time' = TimeOf("MusicalTime", MusicalTime_call(op, beats * Subdivisions[op]),
                   time.rate, op, beats * Subdivisions[op], 0)

MusicalTime_as_fractional_beats(super_beats) == Rat(super_beats, SUPER_UNITS)

\* mutant: the minute is left out
MusicalTime_to_seconds_no_minute(super_beats, bpm) ==
    RatDiv(MusicalTime_as_fractional_beats(super_beats), bpm)

MusicalTime_to_seconds(super_beats, bpm) ==
    RatDiv(RatMul(MusicalTime_as_fractional_beats(super_beats), Rat(60, 1)), bpm)

\* (self.0 * bpm * (28_224_000.0 / 60.0)).round()
Seconds_to_musical(seconds, bpm) ==
    LET x == RatMul(RatMul(seconds, bpm), Rat(SUPER_UNITS, 60))
    IN  div_round(x.num, x.den)

\* the calls keep the MusicalTime they started from as the argument
MusicalTime_as_fractional_beats_call ==
    /\ time.unit = "MusicalTime"
    /\ time' = TimeOf("Beats", MusicalTime_as_fractional_beats(time.v), time.rate,
                      "as_fractional_beats", time.v, 0)

MusicalTime_to_seconds_call(bpm) ==
    /\ time.unit = "MusicalTime"
    /\ time' = TimeOf("Seconds", MusicalTime_to_seconds(time.v, Rat(bpm, 1)), time.rate,
                      "to_seconds", time.v, bpm)

\* Seconds::to_musical of what to_seconds returned, at the same tempo
Seconds_to_musical_call ==
    /\ time.unit = "Seconds"
    /\ time.op = "to_seconds"
    /\ time' = TimeOf("MusicalTime", Seconds_to_musical(time.v, Rat(time.by, 1)),
                      time.rate, "to_musical", time.arg, time.by)

Seconds_to_nearest_sample_floor(seconds, sample_rate) ==
    floor(RatMul(seconds, sample_rate))

Seconds_to_sub_sample(seconds, sample_rate) ==
    LET smps_f64 == RatMul(seconds, sample_rate)
    IN  <<floor(smps_f64), fract(smps_f64)>>

Seconds_to_nearest_super_sample_floor(seconds) ==
    floor(RatMul(seconds, Rat(SUPER_UNITS, 1)))

Seconds_to_sub_super_sample(seconds) ==
    LET super_smps_f64 == RatMul(seconds, Rat(SUPER_UNITS, 1))
    IN  <<floor(super_smps_f64), fract(super_smps_f64)>>

Seconds_to_nearest_sample_floor_call ==
    /\ time.unit = "Seconds"
    /\ time' = TimeOf("SampleTime", Seconds_to_nearest_sample_floor(time.v, time.rate),
                      time.rate, "to_nearest_sample_floor", time.v, time.rate)

Seconds_to_sub_sample_call ==
    /\ time.unit = "Seconds"
    /\ time' = TimeOf("SubSample", Seconds_to_sub_sample(time.v, time.rate),
                      time.rate, "to_sub_sample", time.v, time.rate)

Seconds_to_sub_super_sample_call ==
    /\ time.unit = "Seconds"
    /\ time' = TimeOf("SubSuperSample", Seconds_to_sub_super_sample(time.v),
                      time.rate, "to_sub_super_sample", time.v, 0)

----------------------------------------------------------------------------
(* The systems *)

Cfg == [min |-> self.min, max |-> self.max, gradient |-> self.gradient, unit |-> self.unit]

\* the parts of the state a system does not use stay at these values
IdleF32 ==
    LET c == CHOOSE k \in Configs : k.gradient = "Linear" /\ k.unit = "Generic"
    IN  Constructed(ParamF32_from_normalized(Zero, c.min, c.max, c.gradient, c.unit,
                                             DEFAULT_SMOOTH_SECS, 44100),
                    "from_normalized", Zero)

IdleGradient == conv = NoConv

IdleI32 == ConstructedI32(ParamI32_from_value(0, 0, 0), "from_value", 0)

IdleTime == time = SampleTime_new(0, SampleRate(44100))

(* A ParamF32, its Handles and their cell *)

Init ==
    /\ \E c \in Configs :
          \/ \E v \in ValueInputs(c) :
                Constructed(ParamF32_from_value(v, c.min, c.max, c.gradient, c.unit,
                                                DEFAULT_SMOOTH_SECS, 44100),
                            "from_value", v)
          \/ \E n \in NormInputs :
                Constructed(ParamF32_from_normalized(n, c.min, c.max, c.gradient, c.unit,
                                                     DEFAULT_SMOOTH_SECS, 44100),
                            "from_normalized", n)
    /\ IdleGradient
    /\ IdleI32
    /\ IdleTime

Next ==
    \/ (\E v \in ValueInputs(Cfg) : ParamF32_set_value(v))
          /\ UNCHANGED <<varsGradient, varsI32, varsTime>>
    \/ (\E n \in NormInputs : ParamF32_set_normalized(n))
          /\ UNCHANGED <<varsGradient, varsI32, varsTime>>
    \/ (\E v \in ValueInputs(Cfg) : ParamF32_reset_from_value(v))
          /\ UNCHANGED <<varsGradient, varsI32, varsTime>>
    \/ (\E n \in NormInputs : ParamF32_reset_from_normalized(n))
          /\ UNCHANGED <<varsGradient, varsI32, varsTime>>
    \/ ParamF32_reset
          /\ UNCHANGED <<varsGradient, varsI32, varsTime>>
    \/ (\E settles \in BOOLEAN : ParamF32_smoothed(settles))
          /\ UNCHANGED <<varsGradient, varsI32, varsTime>>
    \/ (\E r \in SampleRates : ParamF32_set_sample_rate(r))
          /\ UNCHANGED <<varsGradient, varsI32, varsTime>>
    \/ (\E h \in 1..Len(handles) : \E n \in NormInputs : ParamF32Handle_set_normalized(h, n))
          /\ UNCHANGED <<varsGradient, varsI32, varsTime>>
    \/ (\E h \in 1..Len(handles) : \E v \in ValueInputs(Cfg) : ParamF32Handle_set_value(h, v))
          /\ UNCHANGED <<varsGradient, varsI32, varsTime>>
    \/ (\E h \in 1..Len(handles) : ParamF32Handle_clone(h))
          /\ UNCHANGED <<varsGradient, varsI32, varsTime>>

Spec == Init /\ [][Next]_vars

(* A ParamF32 constructed with arguments of any kind *)

InitUnchecked ==
    /\ \E c \in UncheckedConfigs :
          \/ \E v \in ValueInputs(c) :
                Constructed(ParamF32_from_value(v, c.min, c.max, c.gradient, c.unit,
                                                DEFAULT_SMOOTH_SECS, 44100),
                            "from_value", v)
          \/ \E n \in NormInputs :
                Constructed(ParamF32_from_normalized(n, c.min, c.max, c.gradient, c.unit,
                                                     DEFAULT_SMOOTH_SECS, 44100),
                            "from_normalized", n)
    /\ IdleGradient
    /\ IdleI32
    /\ IdleTime

SpecUnchecked == InitUnchecked /\ [][Next]_vars

(* The gradient mapping *)

InitGradient ==
    /\ IdleF32
    /\ IdleI32
    /\ IdleTime
    /\ \E c \in GradientConfigs :
          \/ \E v \in ValueInputs(c) : conv = ConvStart(c, "value", v)
          \/ \E n \in NormInputs : conv = ConvStart(c, "normalized", n)

NextGradient ==
    \/ ParamF32_value_to_normalized /\ UNCHANGED <<varsF32, varsI32, varsTime>>
    \/ ParamF32_normalized_to_value /\ UNCHANGED <<varsF32, varsI32, varsTime>>

SpecGradient == InitGradient /\ [][NextGradient]_vars

(* A ParamI32, its Handles and their cell *)

InitI32 ==
    /\ IdleF32
    /\ IdleGradient
    /\ IdleTime
    /\ \E c \in ConfigsI32 :
          \/ \E v \in ValueInputsI32(c) :
                ConstructedI32(ParamI32_from_value(v, c.min, c.max), "from_value", v)
          \/ \E n \in NormInputs :
                ConstructedI32(ParamI32_from_normalized(n, c.min, c.max),
                               "from_normalized", n)

NextI32 ==
    \/ (\E v \in ValueInputsI32(param_i32) : ParamI32_set_value(v))
          /\ UNCHANGED <<varsF32, varsGradient, varsTime>>
    \/ (\E n \in NormInputs : ParamI32_set_normalized(n))
          /\ UNCHANGED <<varsF32, varsGradient, varsTime>>
    \/ (\E n \in NormInputs : ParamI32_normalized_to_value(n))
          /\ UNCHANGED <<varsF32, varsGradient, varsTime>>
    \/ (\E h \in 1..Len(handles_i32) : \E v \in ValueInputsI32(param_i32) :
            ParamI32Handle_set_value(h, v))
          /\ UNCHANGED <<varsF32, varsGradient, varsTime>>
    \/ (\E h \in 1..Len(handles_i32) : \E n \in NormInputs :
            ParamI32Handle_set_normalized(h, n))
          /\ UNCHANGED <<varsF32, varsGradient, varsTime>>
    \/ (\E h \in 1..Len(handles_i32) : \E n \in NormInputs :
            ParamI32Handle_normalized_to_value(h, n))
          /\ UNCHANGED <<varsF32, varsGradient, varsTime>>
    \/ (\E v \in ValueInputsI32(param_i32) : ParamI32_value_to_normalized(v))
          /\ UNCHANGED <<varsF32, varsGradient, varsTime>>
    \/ (\E h \in 1..Len(handles_i32) : \E v \in ValueInputsI32(param_i32) :
            ParamI32Handle_value_to_normalized(h, v))
          /\ UNCHANGED <<varsF32, varsGradient, varsTime>>
    \/ (\E h \in 1..Len(handles_i32) : ParamI32Handle_clone(h))
          /\ UNCHANGED <<varsF32, varsGradient, varsTime>>

SpecI32 == InitI32 /\ [][NextI32]_vars

(* Time values *)

InitTime ==
    /\ IdleF32
    /\ IdleGradient
    /\ IdleI32
    /\ \E r \in SampleRateInputs :
          \/ \E n \in SampleTimesAt(r) : time = SampleTime_new(n, r)
          \/ \E n \in SampleTimesAt(r) : n >= 0 /\ time = Frames_new(n, r)
          \/ \E s \in SecondsInputs : time = Seconds_new(s, r)

NextTime ==
    \/ SampleTime_to_super_sample
          /\ UNCHANGED <<varsF32, varsGradient, varsI32>>
    \/ (\E hz \in CommonSampleRates : SuperSampleTime_to_sample_time_call(SampleRate(hz)))
          /\ UNCHANGED <<varsF32, varsGradient, varsI32>>
    \/ Frames_to_super_frames
          /\ UNCHANGED <<varsF32, varsGradient, varsI32>>
    \/ (\E hz \in CommonSampleRates : SuperFrames_to_frames_call(SampleRate(hz)))
          /\ UNCHANGED <<varsF32, varsGradient, varsI32>>
    \/ MusicalTime_as_fractional_beats_call
          /\ UNCHANGED <<varsF32, varsGradient, varsI32>>
    \/ (\E bpm \in BpmInputs : MusicalTime_to_seconds_call(bpm))
          /\ UNCHANGED <<varsF32, varsGradient, varsI32>>
    \/ Seconds_to_musical_call
          /\ UNCHANGED <<varsF32, varsGradient, varsI32>>
    \/ Seconds_to_nearest_sample_floor_call
          /\ UNCHANGED <<varsF32, varsGradient, varsI32>>
    \/ Seconds_to_sub_sample_call
          /\ UNCHANGED <<varsF32, varsGradient, varsI32>>
    \/ Seconds_to_sub_super_sample_call
          /\ UNCHANGED <<varsF32, varsGradient, varsI32>>
    \/ (\E op \in DOMAIN Subdivisions : \E b \in BeatInputs : MusicalTime_construct(op, b))
          /\ UNCHANGED <<varsF32, varsGradient, varsI32>>

SpecTime == InitTime /\ [][NextTime]_vars

----------------------------------------------------------------------------
(* What the properties speak of *)

\* the DSP value that belongs to a normalized value of this parameter
Dsp(n) ==
    unit_to_dsp_f32(self.unit,
                    normalized_to_value_f32(n, self.min, self.max, self.gradient))

\* the targets a call pushed with Smoother::set, and the values it stored to the cell
Targets(trace) ==
    LET sets == SelectSeq(trace, LAMBDA c : c.f = "set")
    IN  [i \in 1..Len(sets) |-> sets[i].v]

Stores(trace) ==
    LET st == SelectSeq(trace, LAMBDA c : c.f = "store")
    IN  [i \in 1..Len(st) |-> st[i].v]

ResetOps == {"reset_from_value", "reset_from_normalized"}

\* the values a call read from the cell, and the values it hard-reset the Smoother to
Loads(trace) ==
    LET ld == SelectSeq(trace, LAMBDA c : c.f = "load")
    IN  [i \in 1..Len(ld) |-> ld[i].v]

Resets(trace) ==
    LET rs == SelectSeq(trace, LAMBDA c : c.f = "reset")
    IN  [i \in 1..Len(rs) |-> rs[i].v]

----------------------------------------------------------------------------
(* C1: coalesced write visibility *)

\* C1 as claimed: when a Handle has written A and then another value B and
\* smoothed() is called next, the cached normalized value becomes B and the
\* Smoother receives exactly one new target, the DSP value of B.
C1_AsClaimed ==
    (lastBlock.valid /\ Len(lastBlock.hw) = 2 /\ lastBlock.hw[1] # lastBlock.hw[2]) =>
        LET B == lastBlock.hw[2]
        IN  /\ self.normalized = B
            /\ Targets(lastOp.trace) = <<Dsp(B)>>

\* C1 (amended): when a Handle has written A and then B with no ParamF32 call in
\* between and smoothed() is called next, the cached normalized value is B after
\* the call, the DSP value is that of B, and the Smoother receives at most one new
\* target: exactly one, the DSP value of B, when B differs from the value cached
\* before the call, and none when B equals it. A is neither adopted nor pushed.
C1_CoalescedWrite ==
    (lastBlock.valid /\ Len(lastBlock.hw) = 2) =>
        LET B == lastBlock.hw[2]
        IN  /\ self.normalized = B
            /\ self.value = Dsp(B)
            /\ Targets(lastOp.trace) =
                 IF lastBlock.pre.normalized # B THEN <<Dsp(B)>> ELSE <<>>

\* a smoothed() call after writes A then B, where A, B and the cached value all differ
C1_Witness ==
    /\ lastBlock.valid
    /\ Len(lastBlock.hw) = 2
    /\ lastBlock.hw[1] # lastBlock.hw[2]
    /\ lastBlock.hw[1] # lastBlock.pre.normalized
    /\ lastBlock.hw[2] # lastBlock.pre.normalized
    /\ Dsp(lastBlock.hw[1]) # Dsp(lastBlock.hw[2])
    /\ Targets(lastOp.trace) = <<Dsp(lastBlock.hw[2])>>

----------------------------------------------------------------------------
(* C2: Parameter-side writes are visible to the Handle *)

\* C2 as claimed: right after ParamF32::set_normalized(n) or set_value(v) returns,
\* with no Handle store since, every Handle's normalized() returns clamp(n, 0, 1),
\* respectively value_to_normalized(v).
C2_AsClaimed ==
    \A h \in 1..Len(handles) :
        /\ (lastOp.op = "set_normalized" /\ hwrites = <<>>) =>
              ParamF32Handle_normalized(h) = clamp(lastOp.arg, Zero, One)
        /\ (lastOp.op = "set_value" /\ hwrites = <<>>) =>
              ParamF32Handle_normalized(h) =
                 value_to_normalized_f32(lastOp.arg, self.min, self.max, self.gradient)

----------------------------------------------------------------------------
(* C3: postcondition of set_value *)

\* C3 as claimed: after ParamF32::set_value(v) returns, the cached normalized value
\* is value_to_normalized(v) and the DSP value is the one that belongs to it.
C3_AsClaimed ==
    lastOp.op = "set_value" =>
        LET n == value_to_normalized_f32(lastOp.arg, self.min, self.max, self.gradient)
        IN  /\ self.normalized = n
            /\ self.value = Dsp(n)

----------------------------------------------------------------------------
(* C4: no-op stability of set_value *)

\* C4 as claimed: a second ParamF32::set_value(v) right after a first one, nothing
\* in between, pushes no target to the Smoother and does not write the cell.
C4_AsClaimed ==
    (lastOp.op = "set_value" /\ lastOp.rep) =>
        (Targets(lastOp.trace) = <<>> /\ Stores(lastOp.trace) = <<>>)

----------------------------------------------------------------------------
(* C5: no-op stability of set_normalized *)

\* C5 as claimed: ParamF32::set_normalized(n) called while the cached normalized
\* value already equals clamp(n, 0, 1) pushes no target and leaves the cached
\* normalized value, the DSP value and the shared cell unchanged.
C5_AsClaimed ==
    [][\A n \in NormInputs :
          (self.normalized = clamp(n, Zero, One) /\ ParamF32_set_normalized(n)) =>
             /\ Targets(lastOp'.trace) = <<>>
             /\ self'.normalized = self.normalized
             /\ self'.value = self.value
             /\ shared_normalized' = shared_normalized]_vars

----------------------------------------------------------------------------
(* C6: the cached normalized value and the DSP value are consistent *)

\* C6: after construction and after every ParamF32 call, whatever the Handles have
\* written in between, the DSP value is
\* unit_to_dsp(normalized_to_value(cached normalized value, min, max, gradient)).
C6_Consistency == self.value = Dsp(self.normalized)

\* smoothed() has adopted a Handle write on a decibel parameter and a further
\* Handle write is pending
C6_Witness ==
    /\ lastOp.op = "smoothed"
    /\ Targets(lastOp.trace) # <<>>
    /\ self.unit = "Decibels"
    /\ self.value > 0
    /\ hwrites # <<>>
    /\ shared_normalized # self.normalized

----------------------------------------------------------------------------
(* C7: reset bypasses smoothing *)

\* the normalized value a reset call asks for
ResetTo(call) ==
    IF call.op = "reset_from_value"
    THEN value_to_normalized_f32(call.arg, self.min, self.max, self.gradient)
    ELSE clamp(call.arg, Zero, One)

\* C7: right after reset_from_value(X) or reset_from_normalized(X) the Smoother is
\* hard-reset to the new DSP value (no ramp in progress) and, until a Handle
\* writes, the cell equals the new cached normalized value; and a smoothed() call
\* that follows the reset with no Handle write in between adopts no new target
\* and reports the DSP value for X, settled.
C7_ResetBypassesSmoothing ==
    /\ lastOp.op \in ResetOps =>
          /\ self.normalized = ResetTo(lastOp)
          /\ self.value = Dsp(ResetTo(lastOp))
          /\ self.smoothed.target = self.value
          /\ ~self.smoothed.ramping
          /\ (hwrites = <<>> => shared_normalized = self.normalized)
    /\ (lastBlock.valid /\ lastBlock.prev.op \in ResetOps) =>
          /\ Targets(lastOp.trace) = <<>>
          /\ self.normalized = ResetTo(lastBlock.prev)
          /\ SmoothF32_output(self.smoothed) =
                [settled |-> TRUE, target |-> Dsp(ResetTo(lastBlock.prev))]

\* smoothed() has returned right after a reset_from_value to a value strictly
\* inside the range
C7_Witness ==
    /\ lastBlock.valid
    /\ lastBlock.prev.op = "reset_from_value"
    /\ lastBlock.prev.arg > self.min
    /\ lastBlock.prev.arg < self.max
    /\ self.smoothed.target = Dsp(ResetTo(lastBlock.prev))
    /\ ~self.smoothed.ramping

----------------------------------------------------------------------------
(* C8: block-granular propagation *)

\* C8: a Handle write (set_normalized or set_value, on any clone) changes only the
\* shared cell: the ParamF32's cached normalized value, DSP value and Smoother
\* stay as they are, so ParamF32::normalized() keeps returning the value as of the
\* last ParamF32 call.
C8_BlockGranular ==
    /\ self = lastOp.left
    /\ ParamF32_normalized = lastOp.left.normalized
    /\ hwrites # <<>> => shared_normalized = hwrites[Len(hwrites)]

\* a clone has written a value the ParamF32 has not adopted
C8_Witness ==
    /\ Len(handles) = 2
    /\ hwrites # <<>>
    /\ shared_normalized # ParamF32_normalized
    /\ self.value = Dsp(ParamF32_normalized)
    /\ self.smoothed.target = self.value

----------------------------------------------------------------------------
(* C9: last-write-wins convergence *)

\* C9: the cell always holds the value of the most recent store to it (or the
\* initial value), whichever side made it; and when smoothed() has returned and
\* nothing was written since, ParamF32::normalized() and every Handle's
\* normalized() equal the value of that last store.
C9_LastWriteWins ==
    /\ shared_normalized = last_store
    /\ lastBlock.valid =>
          /\ ParamF32_normalized = last_store
          /\ \A h \in 1..Len(handles) : ParamF32Handle_normalized(h) = last_store

\* smoothed() has returned after Handle stores and has changed the cached value
C9_Witness ==
    /\ lastBlock.valid
    /\ lastBlock.hw # <<>>
    /\ lastBlock.pre.normalized # ParamF32_normalized
    /\ ParamF32_normalized = last_store
    /\ Len(handles) = 2

----------------------------------------------------------------------------
(* C10: silent clamping *)

\* the nearest bound of [0, 1]
Saturated(n) == IF n < Zero THEN Zero ELSE IF n > One THEN One ELSE n

C10_Range ==
    /\ shared_normalized \in Zero..One
    /\ self.normalized \in Zero..One

C10_ParamSaturates ==
    /\ lastOp.op \in {"from_normalized", "set_normalized", "reset_from_normalized"} =>
          self.normalized = Saturated(lastOp.arg)
    /\ lastOp.op \in {"from_value", "reset_from_value"} =>
          /\ lastOp.arg <= self.min => self.normalized = Zero
          /\ lastOp.arg >= self.max => self.normalized = One

----------------------------------------------------------------------------
(* C11: construction *)

CtorOps == {"from_value", "from_normalized"}

\* C11: from_value and from_normalized return a ParamF32 and one Handle on one
\* cell; the cell starts at the cached normalized value and the Smoother starts,
\* with no ramp, at the DSP value, so that until something is written
\* Handle::normalized() equals ParamF32::normalized(); and a first smoothed()
\* call with no write before it adopts no new target.
C11_Construction ==
    /\ lastOp.op \in CtorOps =>
          /\ self.value = Dsp(ParamF32_normalized)
          /\ self.smoothed.target = self.value
          /\ ~self.smoothed.ramping
          /\ Len(handles) >= 1
          /\ hwrites = <<>> =>
                \A h \in 1..Len(handles) :
                    ParamF32Handle_normalized(h) = ParamF32_normalized
    /\ (lastBlock.valid /\ lastBlock.prev.op \in CtorOps) =>
          /\ Targets(lastOp.trace) = <<>>
          /\ ParamF32_normalized = lastBlock.pre.normalized
          /\ SmoothF32_output(self.smoothed) = [settled |-> TRUE, target |-> self.value]

\* the first smoothed() call has returned on a decibel parameter constructed
\* above the floor, with nothing written before it
C11_Witness ==
    /\ lastBlock.valid
    /\ lastBlock.prev.op \in CtorOps
    /\ self.unit = "Decibels"
    /\ self.value > 0
    /\ self.smoothed.target = self.value

----------------------------------------------------------------------------
(* C12: Handle clones share one cell *)

----------------------------------------------------------------------------
(* C13: the frame of set_sample_rate *)

\* C13: set_sample_rate(r) changes nothing but the Smoother's speed, which becomes
\* that of r and the stored smoothing time: the cached normalized value, the DSP
\* value, the Smoother's target and ramp, the shared cell and
\* min/max/gradient/unit are as before, and a pending Handle write is not adopted.
C13_SetSampleRateFrame ==
    lastOp.op = "set_sample_rate" =>
        /\ lastOp.frame
        /\ self.smoothed.speed = <<lastOp.arg, self.smooth_secs>>
        /\ lastOp.trace = <<>>

\* set_sample_rate has returned while a Handle write is pending and a ramp is
\* in progress
C13_Witness ==
    /\ lastOp.op = "set_sample_rate"
    /\ lastOp.arg = 48000
    /\ self.smoothed.speed = <<48000, self.smooth_secs>>
    /\ self.smoothed.ramping
    /\ shared_normalized # ParamF32_normalized

----------------------------------------------------------------------------
(* C14: value_to_normalized saturates *)

\* C14 as claimed: for every gradient (Linear, Power, Exponential) and every
\* min < max, value_to_normalized(v) is exactly 0.0 for v <= min, exactly 1.0 for
\* v >= max, and lies in [0, 1] for v strictly between.
C14_AsClaimed ==
    (conv.pc \in {"half", "done"} /\ conv.dir = "value" /\ conv.c.min < conv.c.max) =>
        /\ conv.arg <= conv.c.min => conv.mid = Zero
        /\ conv.arg >= conv.c.max => conv.mid = One
        /\ conv.mid \in Zero..One

----------------------------------------------------------------------------
(* C15: round trip of the gradient mapping *)

----------------------------------------------------------------------------
(* C16: the range invariant of ParamI32 *)

\* C16: for min <= max the shared integer lies in [min, max] after construction
\* by from_value or from_normalized and after every set_value and set_normalized
\* on the ParamI32 and on any Handle clone, whatever the arguments.
C16_RangeI32 ==
    /\ param_i32.min <= param_i32.max
    /\ shared >= param_i32.min
    /\ shared <= param_i32.max

\* a Handle clone was given a value above max and the cell holds max
C16_Witness ==
    /\ param_i32.min < param_i32.max
    /\ last_i32.op = "set_value"
    /\ last_i32.by = MaxHandles
    /\ last_i32.arg > param_i32.max
    /\ shared = param_i32.max

----------------------------------------------------------------------------
(* C17: rounding in ParamI32::from_normalized *)

\* v is an integer nearest to min + n * (max - min), n a normalized value in [0, 1]
NearestI32(v, n, min, max) ==
    LET exact == NormScale * min + n * (max - min)
    IN  2 * abs(NormScale * v - exact) <= NormScale

\* C17 as claimed: for every n and min <= max, ParamI32::from_normalized(n, min,
\* max) starts at the integer nearest to min + clamp(n, 0, 1) * (max - min),
\* clamped to [min, max]; so n = 0 gives min and n = 1 gives max.
C17_AsClaimed ==
    last_i32.op = "from_normalized" =>
        LET n == clamp(last_i32.arg, Zero, One)
        IN  /\ NearestI32(shared, n, param_i32.min, param_i32.max)
            /\ n = Zero => shared = param_i32.min
            /\ n = One => shared = param_i32.max

----------------------------------------------------------------------------
(* C18: the linear mapping of ParamI32 on writes *)

\* C18 as claimed: for n in [0, 1], set_normalized(n) on a ParamI32 or a
\* ParamI32Handle stores, and normalized_to_value(n) returns, the integer nearest
\* to min + n * (max - min), the value ParamI32::from_normalized(n, min, max)
\* starts at; so 0.0 maps to min and 1.0 to max.
C18_AsClaimed ==
    (last_i32.arg \in Zero..One) =>
        /\ last_i32.op = "set_normalized" =>
              shared = ParamI32_from_normalized(last_i32.arg, param_i32.min,
                                                param_i32.max).cell
        /\ last_i32.op = "normalized_to_value" =>
              last_i32.ret = ParamI32_from_normalized(last_i32.arg, param_i32.min,
                                                      param_i32.max).cell

----------------------------------------------------------------------------
(* C19: the super-sample round trip is exact *)

\* C19: for each of the eight common sample rates and every SampleTime N of the
\* range (0, negative and large counts included), N.to_super_sample(rate) is
\* N * (28,224,000 / rate), the quotient being an exact integer, and
\* N.to_super_sample(rate).to_sample_time(rate) is N again.
C19_SuperSampleRoundTrip ==
    /\ (time.op = "to_super_sample" /\ IsCommon(time.rate)) =>
          /\ SUPER_UNITS % time.rate.num = 0
          /\ time.v = time.arg * (SUPER_UNITS \div time.rate.num)
    /\ (time.op = "to_sample_time" /\ IsCommon(time.by) /\ time.rate = time.by) =>
          /\ time.unit = "SampleTime"
          /\ time.v = time.arg

\* a large negative SampleTime has made the round trip at 22050 Hz
C19_Witness ==
    /\ time.op = "to_sample_time"
    /\ time.rate = SampleRate(22050)
    /\ time.by = time.rate
    /\ time.arg <= 0 - LargeTime
    /\ time.v = time.arg

----------------------------------------------------------------------------
(* C20: musical subdivisions *)

\* C20 as claimed: for each subdivision constructor of MusicalTime with k units to
\* the beat (k = 2, 4, 8, 16, 32, 64, 3, 5, 7) and every integer n, the
\* constructor applied to n * k equals MusicalTime::from_beats(n).
C20_AsClaimed ==
    (/\ time.unit = "MusicalTime"
     /\ time.op \in DOMAIN Subdivisions
     /\ time.arg % Subdivisions[time.op] = 0) =>
        time.v = MusicalTime_from_beats(time.arg \div Subdivisions[time.op])

----------------------------------------------------------------------------
(* C21: musical time arithmetic *)

\* C21: for a MusicalTime of b whole beats, to_seconds(bpm) is b * 60 / bpm
\* seconds (from_beats(2).to_seconds(120) is Seconds(1.0)), as_fractional_beats()
\* is b (from_quarter_beats(4).as_fractional_beats() is 1.0), and
\* Seconds::to_musical(bpm) of those b * 60 / bpm seconds is from_beats(b) again.
C21_MusicalArithmetic ==
    LET b == time.arg \div SUPER_UNITS
    IN  /\ (time.op = "to_seconds" /\ time.arg % SUPER_UNITS = 0) =>
              /\ time.v = Rat(b * 60, time.by)
              /\ (b = 2 /\ time.by = 120) => time.v = Rat(1, 1)
        /\ (time.op = "as_fractional_beats" /\ time.arg % SUPER_UNITS = 0) =>
              /\ time.v = Rat(b, 1)
              /\ time.arg = MusicalTime_from_quarter_beats(4) => time.v = Rat(1, 1)
        /\ (time.op = "to_musical" /\ time.arg % SUPER_UNITS = 0) =>
              time.v = MusicalTime_from_beats(b)

\* two beats at 7 beats per minute, a time no f64 holds exactly, have come back
\* from seconds
C21_Witness ==
    /\ time.op = "to_musical"
    /\ time.by = 7
    /\ time.arg = MusicalTime_from_beats(2)
    /\ time.v = MusicalTime_from_beats(2)

----------------------------------------------------------------------------
(* C23: which sample rates take the exact path *)

\* C23 as claimed: SuperSampleTime::from_sample_time and SuperFrames::from_frames
\* multiply by the integer 28,224,000 / rate only when the rate is one of the
\* eight common rates; at every other rate, one whose integer part is a common
\* rate included (44100.5), the result is the count times 28,224,000 / rate,
\* rounded.
C23_AsClaimed ==
    (time.op \in {"to_super_sample", "to_super_frames"}) =>
        IF IsCommon(time.by)
        THEN time.v = time.arg * (SUPER_UNITS \div time.by.num)
        ELSE time.v = mul_div_round(time.arg, SUPER_UNITS * time.by.den, time.by.num)

----------------------------------------------------------------------------
(* C24: a change of sample rate is lossless on whole seconds *)

\* C24: for common rates r1 and r2 and k whole seconds, SampleTime(k * r1)
\* .to_super_sample(r1) is SuperSampleTime(k * 28,224,000) and its
\* to_sample_time(r2) is SampleTime(k * r2); likewise Frames(k * r1)
\* .to_super_frames(r1) and its to_frames(r2), for k >= 0.
C24_LosslessRateChange ==
    LET k == time.arg \div time.by.num
    IN  /\ (/\ time.op \in {"to_super_sample", "to_super_frames"}
            /\ IsCommon(time.by)
            /\ time.arg % time.by.num = 0) =>
              time.v = k * SUPER_UNITS
        /\ (/\ time.op \in {"to_sample_time", "to_frames"}
            /\ IsCommon(time.by)
            /\ time.arg % time.by.num = 0) =>
              /\ IsCommon(time.rate)
              /\ time.v = k * time.rate.num

\* MaxTime seconds before 0 at 22050 Hz have become as many seconds at 192000 Hz
C24_Witness ==
    /\ time.op = "to_sample_time"
    /\ time.by = SampleRate(22050)
    /\ time.rate = SampleRate(192000)
    /\ time.arg = (0 - MaxTime) * 22050
    /\ time.v = (0 - MaxTime) * 192000

----------------------------------------------------------------------------
(* C25: one read of the cell per block *)

\* C25: a smoothed() call loads the shared cell exactly once; the value loaded is
\* the one compared with the cached normalized value and the one adopted, so the
\* cached value after the call is that value and, when it differed, the one
\* target pushed is its DSP value.  What the Handles wrote before the call,
\* however many writes, is adopted as the last of them; what they write after
\* the load stays in the cell and is adopted by the smoothed() call that follows.
C25_SingleLoadPerBlock ==
    /\ lastOp.op = "smoothed" =>
          /\ Len(Loads(lastOp.trace)) = 1
          /\ self.normalized = Loads(lastOp.trace)[1]
          /\ Targets(lastOp.trace) \in {<<>>, <<Dsp(Loads(lastOp.trace)[1])>>}
          /\ Stores(lastOp.trace) = <<>>
          /\ hwrites # <<>> => shared_normalized = hwrites[Len(hwrites)]
    /\ lastBlock.valid =>
          /\ lastOp.op = "smoothed"
          /\ Loads(lastOp.trace) = <<last_store>>
          /\ lastBlock.hw # <<>> =>
                Loads(lastOp.trace) = <<lastBlock.hw[Len(lastBlock.hw)]>>
          /\ Targets(lastOp.trace) =
                IF lastBlock.pre.normalized # self.normalized
                THEN <<Dsp(self.normalized)>> ELSE <<>>

\* a smoothed() call has started after two different Handle writes and has
\* adopted the second with its one load
C25_Witness ==
    /\ lastBlock.valid
    /\ Len(lastBlock.hw) = 2
    /\ lastBlock.hw[1] # lastBlock.hw[2]
    /\ lastBlock.pre.normalized # lastBlock.hw[2]
    /\ Loads(lastOp.trace) = <<lastBlock.hw[2]>>
    /\ self.normalized = lastBlock.hw[2]

----------------------------------------------------------------------------
(* C26: floor with remainder *)

\* C26 as claimed: for every Seconds value s (positive, zero and negative) and
\* sample rate r, to_sub_sample returns (SampleTime(f), frac) with
\* f = floor(s * r) = to_nearest_sample_floor(r), 0 <= frac < 1 and
\* f + frac = s * r; likewise to_sub_super_sample with 28,224,000 in place of r.
C26_AsClaimed ==
    LET f == time.v[1]
        frac == time.v[2]
    IN  /\ time.op = "to_sub_sample" =>
              /\ f = floor(RatMul(time.arg, time.by))
              /\ f = Seconds_to_nearest_sample_floor(time.arg, time.by)
              /\ frac.num >= 0 /\ frac.num < frac.den
              /\ Rat((f * frac.den) + frac.num, frac.den) = RatMul(time.arg, time.by)
        /\ time.op = "to_sub_super_sample" =>
              /\ f = floor(RatMul(time.arg, Rat(SUPER_UNITS, 1)))
              /\ f = Seconds_to_nearest_super_sample_floor(time.arg)
              /\ frac.num >= 0 /\ frac.num < frac.den
              /\ Rat((f * frac.den) + frac.num, frac.den) =
                    RatMul(time.arg, Rat(SUPER_UNITS, 1))

----------------------------------------------------------------------------
(* C22: construction preconditions *)

\* C22 as claimed: from_value and from_normalized called with min >= max, or
\* with Gradient::Exponential and min <= 0, end in a fault, so that no ParamF32 /
\* Handle pair in a usable state has such bounds: every parameter there is has
\* min < max, and min > 0 when its gradient is Exponential.
C22_AsClaimed ==
    /\ self.min < self.max
    /\ self.gradient = "Exponential" => self.min > 0
    /\ \A h \in 1..Len(handles) :
          /\ handles[h].min < handles[h].max
          /\ handles[h].gradient = "Exponential" => handles[h].min > 0

----------------------------------------------------------------------------
(* C29: Handle::value() is within the bounds *)

\* C29 as claimed: for a parameter with min < max and any gradient, in every
\* reachable state, whatever the ParamF32 and the Handles were given to write,
\* Handle::value() lies in [min, max] and equals
\* normalized_to_value(Handle::normalized()).
C29_AsClaimed ==
    self.min < self.max =>
        \A h \in 1..Len(handles) :
            /\ ParamF32Handle_value(h) >= handles[h].min
            /\ ParamF32Handle_value(h) <= handles[h].max
            /\ ParamF32Handle_value(h) =
                  normalized_to_value_f32(ParamF32Handle_normalized(h), handles[h].min,
                                          handles[h].max, handles[h].gradient)

----------------------------------------------------------------------------
(* C30: the Smoother's target tracks the DSP value *)

\* C30: after construction and after every ParamF32 call the value last given to
\* the Smoother (by new, set or reset) is the current DSP value: the
\* constructors give it to new; set_value, set_normalized and smoothed() give
\* it to Smoother::set whenever they change it and call nothing else of the
\* Smoother's setters; reset_from_value, reset_from_normalized and reset give it
\* to Smoother::reset, which leaves no ramp in progress.
C30_SmootherTracksDsp ==
    /\ self.smoothed.target = self.value
    /\ lastOp.op \in CtorOps => lastOp.trace = <<Call("new", self.value)>>
    /\ lastOp.op \in {"set_value", "set_normalized", "smoothed"} =>
          /\ Targets(lastOp.trace) \in {<<>>, <<self.value>>}
          /\ Resets(lastOp.trace) = <<>>
    /\ lastOp.op \in ResetOps \cup {"reset"} =>
          /\ Resets(lastOp.trace) = <<self.value>>
          /\ Targets(lastOp.trace) = <<>>
          /\ ~self.smoothed.ramping
    /\ (lastBlock.valid /\ self.value # Dsp(lastBlock.pre.normalized)) =>
          Targets(lastOp.trace) = <<self.value>>

\* smoothed() has adopted a Handle write that changed the DSP value, and the ramp
\* toward it is in progress
C30_Witness ==
    /\ lastBlock.valid
    /\ lastBlock.hw # <<>>
    /\ self.value # Dsp(lastBlock.pre.normalized)
    /\ Targets(lastOp.trace) = <<self.value>>
    /\ self.smoothed.target = self.value
    /\ self.smoothed.ramping

----------------------------------------------------------------------------
(* C27: the round trip of ParamI32 *)

\* C27 as claimed: for every min < max and every integer v in [min, max],
\* normalized_to_value(value_to_normalized(v)) = v on the ParamI32 and on a
\* ParamI32Handle, and normalized_to_value(n) lies in [min, max] for every n.
C27_AsClaimed ==
    LET b == IF last_i32.by = 0 THEN param_i32 ELSE handles_i32[last_i32.by]
    IN  b.min < b.max =>
          /\ (/\ last_i32.op = "value_to_normalized"
              /\ last_i32.arg >= b.min /\ last_i32.arg <= b.max) =>
                normalized_to_value_i32(last_i32.ret, b.min, b.max) = last_i32.arg
          /\ last_i32.op = "normalized_to_value" =>
                (last_i32.ret >= b.min /\ last_i32.ret <= b.max)

----------------------------------------------------------------------------
(* C28: ParamI32 and its Handles share one integer *)

\* C28: after set_value(v) on the ParamI32 or on any Handle clone, and until the
\* next call, value() on the ParamI32 and on every Handle clone, those cloned
\* after the write included, returns clamp(v, min, max); all of them return the
\* same integer in every state.
C28_NoSyncPoint ==
    /\ \A h \in 1..Len(handles_i32) :
          /\ ParamI32Handle_value(h) = ParamI32_value
          /\ handles_i32[h].min = param_i32.min
          /\ handles_i32[h].max = param_i32.max
    /\ last_i32.op = "set_value" =>
          /\ ParamI32_value = clamp_i32(last_i32.arg, param_i32.min, param_i32.max)
          /\ \A h \in 1..Len(handles_i32) :
                ParamI32Handle_value(h) =
                    clamp_i32(last_i32.arg, handles_i32[h].min, handles_i32[h].max)

\* a Handle clone has set a value inside the range that differs from the one
\* the parameter was constructed with, and the ParamI32 reads it
C28_Witness ==
    /\ param_i32.min < param_i32.max
    /\ last_i32.op = "set_value"
    /\ last_i32.by = MaxHandles
    /\ Len(handles_i32) = MaxHandles
    /\ last_i32.arg > param_i32.min /\ last_i32.arg < param_i32.max
    /\ ParamI32_value = last_i32.arg
    /\ ParamI32Handle_value(1) = last_i32.arg

====
